---- MODULE Spec2Model ----
(***************************************************************************)
(* Bootstrap and router composition of the cbft node (cmd/cbft/main.go).   *)
(* One process runs main(): flag handling, log/dumper setup, the data      *)
(* directory guard, cmd.MainCfg, cmd.MainUUID, MainStart and               *)
(* http.ListenAndServe.  Calls into collaborator libraries (cbgt, cbgt/cmd,*)
(* cbgt/rest, go-couchbase, net/http) are steps whose result is chosen     *)
(* among the results the calling code distinguishes.                       *)
(***************************************************************************)
EXTENDS Integers, Sequences, FiniteSets, TLC

VARIABLES
    flags,            \* the parsed command line (immutable for a run)
    argvOK,           \* whether flag.Parse() accepts the command line
    fs,               \* what is at the path flags.DataDir
    guardBranch,      \* the branch of the guard taken in this run
    pc,               \* position of the main goroutine
    exitCode,         \* process exit status, -1 while running
    exitCause,        \* which exit path was taken
    fatalMsg,         \* the message of the log.Fatal* / returned error
    logSink,          \* where the log package writes
    dumperStarted,    \* go dumpOnSignalForPlatform() was issued
    begun,            \* bootstrap stages that have begun in this run
    res,              \* outcome of each bootstrap stage in this run
    failed,           \* steps whose call reported an error in this run
    cfgAttempts,      \* number of cmd.MainCfg calls in this run
    calls,            \* the library calls made in this run, in order
    err,              \* the variable err of MainStart
    mgr,              \* the cbgt.Manager of MainStart
    router,           \* the variable router of MainStart
    ret,              \* what MainStart returned to main
    httpBound,        \* http.Handle("/", router) was called
    listenerStarted,  \* http.ListenAndServe was called
    dpc,              \* position of the dumper goroutine
    sigChan,          \* the channel c of dumpOnSignal (buffered signals)
    delivered,        \* signals delivered to the subscription in this run
    dropped,          \* signals signal.Notify could not send in this run
    dumpLog,          \* the snapshots written to os.Stderr in this run
    table,            \* the index name mapping of bleve/http
    lastCb,           \* last callback applied to each partition in this run
    primary,          \* the asset set embedded in package cbft
    fallback,         \* the asset set embedded in package cbgt/rest
    lookup            \* the last asset lookup and what it returned

vars == <<flags, argvOK, fs, guardBranch, pc, exitCode, exitCause, fatalMsg, logSink,
          dumperStarted, begun, res, failed, cfgAttempts, calls, err, mgr,
          router, ret, httpBound, listenerStarted, dpc, sigChan, delivered,
          dropped, dumpLog, table, lastCb, primary, fallback, lookup>>

dumperVars == <<dpc, sigChan, delivered, dropped, dumpLog>>
handlerVars == <<table, lastCb>>
assetVars == <<primary, fallback, lookup>>
auxVars == <<dumperVars, handlerVars, assetVars>>

----------------------------------------------------------------------------
(* Strings that the code inspects are sequences of characters.             *)

HasPrefix(s, prefix) ==
    /\ Len(s) >= Len(prefix)
    /\ SubSeq(s, 1, Len(prefix)) = prefix

HttpPrefix  == <<"h","t","t","p",":","/","/">>
HttpsPrefix == <<"h","t","t","p","s",":","/","/">>

ServerEmpty   == <<>>
ServerLocal   == <<".">>
ServerHttp    == <<"h","t","t","p",":","/","/","h">>
ServerHttps   == <<"h","t","t","p","s",":","/","/","h">>
ServerNotAURL == <<"n","o","t"," ","a"," ","u","r","l">>
ServerShort   == <<"h","t","t","p">>
ServerFtp     == <<"f","t","p",":","/","/","h">>
ServerUpper   == <<"H","T","T","P",":","/","/","h">>

Servers == {ServerEmpty, ServerLocal, ServerHttp, ServerHttps,
            ServerNotAURL, ServerShort, ServerFtp, ServerUpper}

DEFAULT_DATA_DIR == "data"
DataDirs == {DEFAULT_DATA_DIR, "/var/other"}
RegisterModes == {"wanted", "unknown"}
CfgConnects == {"simple", "couchbase:http://cfg"}

DirPerm == 448      \* 0700

(* An error or log message: its format string and its arguments (a plain  *)
(* argument such as dataDir, the server argument, the wrapped cause).      *)
Errorf(f, arg, server, cause) ==
    [fmt |-> f, arg |-> arg, server |-> server, cause |-> cause]
Nil == Errorf("nil", "", <<>>, "")

----------------------------------------------------------------------------
(* The statement order of main() and of MainStart().                       *)

MainSeq_identityFirst ==
    <<"flags", "setup", "guard", "uuid", "cfg", "ms_server", "check",
      "bind", "listen", "serving">>

MainSeq ==
    <<"flags", "setup", "guard", "cfg", "uuid", "ms_server", "check",
      "bind", "listen", "serving">>

MainStartSeq_probeFirst ==
    <<"ms_server", "ms_auth", "ms_probe", "ms_creds", "ms_mgr", "ms_rest",
      "ms_nsstats", "ms_nsstatus", "ms_return", "check">>

MainStartSeq ==
    <<"ms_server", "ms_auth", "ms_creds", "ms_probe", "ms_mgr", "ms_rest",
      "ms_nsstats", "ms_nsstatus", "ms_return", "check">>

After(seq, p) == seq[(CHOOSE i \in 1..Len(seq) : seq[i] = p) + 1]

Stages == <<"guard", "cfg", "uuid", "mainstart", "listen">>
StageSet == {Stages[i] : i \in 1..Len(Stages)}

----------------------------------------------------------------------------
(* Exit statuses: os.Exit(2) after flag.Usage() and on a flag parse error, *)
(* os.Exit(0) for -version and for the unregistered node, status 1 from    *)
(* log.Fatal*, status 2 from the Go runtime on an unrecovered panic.       *)

ExitStatus_helpZero(cause) ==
    CASE cause = "usage"        -> 2
      [] cause = "help"         -> 0
      [] cause = "version"      -> 0
      [] cause = "unregistered" -> 0
      [] cause = "fatal"        -> 1
      [] cause = "panic"        -> 2

ExitStatus(cause) ==
    CASE cause = "usage"        -> 2
      [] cause = "help"         -> 2
      [] cause = "version"      -> 0
      [] cause = "unregistered" -> 0
      [] cause = "fatal"        -> 1
      [] cause = "panic"        -> 2

Exit(cause, msg) ==
    /\ pc' = "exited"
    /\ exitCause' = cause
    /\ exitCode' = ExitStatus(cause)
    /\ fatalMsg' = msg

Fatal(msg) == Exit("fatal", msg)

Continue(seq) ==
    /\ pc' = After(seq, pc)
    /\ UNCHANGED <<exitCode, exitCause, fatalMsg>>

----------------------------------------------------------------------------
Absent == [kind |-> "absent", mode |-> 0, madeBy |-> "env"]

FsStates ==
    {Absent,
     [kind |-> "dir",  mode |-> 448, madeBy |-> "env"],
     [kind |-> "dir",  mode |-> 493, madeBy |-> "env"],
     [kind |-> "file", mode |-> 420, madeBy |-> "env"],
     [kind |-> "inaccessible", mode |-> 0, madeBy |-> "env"]}

MainInit ==
    /\ flags \in [Help : BOOLEAN, Version : BOOLEAN, DataDir : DataDirs,
                  CfgConnect : CfgConnects, Server : Servers,
                  Register : RegisterModes]
    /\ argvOK \in BOOLEAN
    /\ fs \in FsStates
    /\ guardBranch = "none"
    /\ pc = "flags"
    /\ exitCode = -1
    /\ exitCause = "none"
    /\ fatalMsg = Nil
    /\ logSink = "stderr"
    /\ dumperStarted = FALSE
    /\ begun = {}
    /\ res = [s \in StageSet |-> "none"]
    /\ failed = {}
    /\ cfgAttempts = 0
    /\ calls = <<>>
    /\ err = Nil
    /\ mgr = "none"
    /\ router = [isNil |-> TRUE, routes |-> <<>>]
    /\ ret = [returned |-> FALSE, routerNil |-> TRUE, err |-> Nil]
    /\ httpBound = FALSE
    /\ listenerStarted = FALSE

(* The dumper goroutine does not exist before line 75. *)
DumperOff ==
    /\ dpc = "off"
    /\ sigChan = <<>>
    /\ delivered = 0
    /\ dropped = 0
    /\ dumpLog = <<>>

(* The partitions the manager may report, each with the type of its Impl. *)
PIndexes ==
    {[Name |-> "p1", Impl |-> "bleve"],
     [Name |-> "p2", Impl |-> "bleve"],
     [Name |-> "p3", Impl |-> "other"]}
PNames == {p.Name : p \in PIndexes}

NoCallbacks ==
    /\ table = {}
    /\ lastCb = [n \in PNames |-> "none"]

(* What an embedded asset set holds under a name. *)
AssetNames == {"index.html", "partials"}
AssetKinds == {"none", "file", "dir"}
AssetSets == [AssetNames -> AssetKinds]
NoLookup ==
    [fn |-> "none", name |-> "",
     r |-> [val |-> <<>>, err |-> "nil", consulted |-> <<>>]]

EmbeddedAssets ==
    /\ primary = [n \in AssetNames |-> IF n = "index.html" THEN "file" ELSE "dir"]
    /\ fallback = [n \in AssetNames |-> IF n = "index.html" THEN "file" ELSE "dir"]
    /\ lookup = NoLookup

Init ==
    /\ MainInit
    /\ DumperOff
    /\ NoCallbacks
    /\ EmbeddedAssets

msVars == <<err, mgr, router, ret>>
srvVars == <<httpBound, listenerStarted>>

----------------------------------------------------------------------------
(* main, lines 47-58: flag.Parse(), -help, -version.                        *)
(* lines 49-58: which of the two early exits is taken, if any. *)
EarlyExit_versionLate(f) ==
    IF f.Help THEN "help" ELSE "none"

EarlyExit(f) ==
    IF f.Help THEN "help"
    ELSE IF f.Version THEN "version"
    ELSE "none"

ParseFlags ==
    /\ pc = "flags"
    /\ IF ~argvOK THEN Exit("usage", Nil)
       ELSE IF EarlyExit(flags) # "none" THEN Exit(EarlyExit(flags), Nil)
       ELSE Continue(MainSeq)
    /\ UNCHANGED <<flags, argvOK, calls, fs, guardBranch, logSink, dumperStarted, begun, res,
                   failed, cfgAttempts, msVars, srvVars>>
    /\ UNCHANGED auxVars

(* main, lines 60-77: message ring as log output, dumper goroutine.         *)
Setup ==
    /\ pc = "setup"
    /\ calls' = calls \o <<"cbgt.NewMsgRing">>
    /\ \E ringOK \in BOOLEAN :
         IF ringOK
         THEN /\ logSink' = "ring"
              /\ dumperStarted' = TRUE
              /\ failed' = failed
              /\ Continue(MainSeq)
         ELSE /\ failed' = failed \cup {"msgring"}
              /\ Fatal(Errorf("main: could not create MsgRing, err: %v",
                              "", <<>>, "err"))
              /\ UNCHANGED <<logSink, dumperStarted>>
    /\ UNCHANGED <<flags, argvOK, fs, guardBranch, begun, res, cfgAttempts, msVars,
                   srvVars>>
    /\ UNCHANGED auxVars

----------------------------------------------------------------------------
(* The data directory guard, main lines 79-105, as a function of what is   *)
(* at the path and of whether os.Mkdir succeeds.                            *)

Stat(f) ==
    CASE f.kind = "absent"       -> "ENOENT"
      [] f.kind = "inaccessible" -> "EACCES"
      [] OTHER                   -> "ok"

GuardHalt(f, branch, msg) ==
    [fs |-> f, branch |-> branch, fatal |-> TRUE, msg |-> msg]

(* line 101: s.IsDir() *)
IsDir_any(f) == TRUE

IsDir(f) == f.kind = "dir"

(* line 82: only the default path may be created. *)
MayCreate_any(dataDir) == TRUE

MayCreate(dataDir) == dataDir = DEFAULT_DATA_DIR

(* line 85: os.Mkdir(flags.DataDir, 0700) having succeeded. *)
Mkdir_0755(f) == [kind |-> "dir", mode |-> 493, madeBy |-> "guard"]

Mkdir(f) == [kind |-> "dir", mode |-> DirPerm, madeBy |-> "guard"]

Guard(f, dataDir, mkdirOK) ==
    IF Stat(f) # "ok"
    THEN IF Stat(f) = "ENOENT"
         THEN IF MayCreate(dataDir)
              THEN IF mkdirOK
                   THEN [fs |-> Mkdir(f), branch |-> "created",
                         fatal |-> FALSE, msg |-> Nil]
                   ELSE GuardHalt(f, "mkdir_failed",
                          Errorf("main: could not create data directory, dataDir: %s, err: %v",
                                 dataDir, <<>>, "err"))
              ELSE GuardHalt(f, "not_exist",
                     Errorf("main: data directory does not exist, dataDir: %s",
                            dataDir, <<>>, ""))
         ELSE GuardHalt(f, "no_access",
                Errorf("main: could not access data directory, dataDir: %s, err: %v",
                       dataDir, <<>>, Stat(f)))
    ELSE IF ~IsDir(f)
         THEN GuardHalt(f, "not_dir",
                Errorf("main: not a directory, dataDir: %s",
                       dataDir, <<>>, ""))
         ELSE [fs |-> f, branch |-> "is_dir", fatal |-> FALSE, msg |-> Nil]

GuardStep ==
    /\ pc = "guard"
    /\ \E mkdirOK \in BOOLEAN :
         LET g == Guard(fs, flags.DataDir, mkdirOK) IN
           /\ fs' = g.fs
           /\ calls' = calls \o
                IF g.branch \in {"created", "mkdir_failed"}
                THEN <<"os.Stat", "os.Mkdir">>
                ELSE <<"os.Stat">>
           /\ guardBranch' = g.branch
           /\ begun' = begun \cup {"guard"}
           /\ res' = [res EXCEPT !["guard"] =
                        IF g.fatal THEN "fail" ELSE "ok"]
           /\ failed' = IF g.fatal THEN failed \cup {"guard"} ELSE failed
           /\ IF g.fatal THEN Fatal(g.msg) ELSE Continue(MainSeq)
    /\ UNCHANGED <<flags, argvOK, logSink, dumperStarted, cfgAttempts,
                   msVars, srvVars>>
    /\ UNCHANGED auxVars

----------------------------------------------------------------------------
(* main, lines 107-122: cmd.MainCfg.                                        *)

ErrorBindHttp == Errorf("ErrorBindHttp", "", <<>>, "")
CfgErr == Errorf("cfg err", "", <<>>, "")

CfgUnavailableFmt ==
    "main: could not start cfg, cfgConnect: %s, err: %v ... -cfg/-cfgConnect parameter (%q)"

CfgFatalMsg_generic(e, cfgConnect) ==
    Errorf(CfgUnavailableFmt, cfgConnect, <<>>, e.fmt)

CfgFatalMsg(e, cfgConnect) ==
    IF e = ErrorBindHttp
    THEN Errorf("%v", "", <<>>, e.fmt)
    ELSE Errorf(CfgUnavailableFmt, cfgConnect, <<>>, e.fmt)

CfgStep ==
    /\ pc = "cfg"
    /\ calls' = calls \o <<"cmd.MainCfg">>
    /\ cfgAttempts' = cfgAttempts + 1
    /\ begun' = begun \cup {"cfg"}
    /\ \E e \in {Nil, ErrorBindHttp, CfgErr} :
         /\ res' = [res EXCEPT !["cfg"] = IF e = Nil THEN "ok" ELSE "fail"]
         /\ failed' = IF e = Nil THEN failed ELSE failed \cup {"cfg"}
         /\ IF e # Nil
            THEN Fatal(CfgFatalMsg(e, flags.CfgConnect))
            ELSE Continue(MainSeq)
    /\ UNCHANGED <<flags, argvOK, fs, guardBranch, logSink, dumperStarted, msVars,
                   srvVars>>
    /\ UNCHANGED auxVars

(* main, lines 124-128: cmd.MainUUID.                                       *)
UUIDStep ==
    /\ pc = "uuid"
    /\ calls' = calls \o <<"cmd.MainUUID">>
    /\ begun' = begun \cup {"uuid"}
    /\ \E e \in {Nil, Errorf("uuid err", "", <<>>, "")} :
         /\ res' = [res EXCEPT !["uuid"] = IF e = Nil THEN "ok" ELSE "fail"]
         /\ failed' = IF e = Nil THEN failed ELSE failed \cup {"uuid"}
         /\ IF e # Nil
            THEN Fatal(Errorf("%v", "", <<>>, e.fmt))
            ELSE Continue(MainSeq)
    /\ UNCHANGED <<flags, argvOK, fs, guardBranch, logSink, dumperStarted, cfgAttempts,
                   msVars, srvVars>>
    /\ UNCHANGED auxVars

----------------------------------------------------------------------------
(* MainStart, lines 190-250.  Return(rnil, e) is a return statement:       *)
(* control goes back to main at line 142.                                  *)

Return(rnil, e) ==
    /\ ret' = [returned |-> TRUE, routerNil |-> rnil, err |-> e]
    /\ res' = [res EXCEPT !["mainstart"] = IF e = Nil THEN "ok" ELSE "fail"]
    /\ pc' = "check"
    /\ UNCHANGED <<exitCode, exitCause, fatalMsg>>

Proceed ==
    /\ Continue(MainStartSeq)
    /\ UNCHANGED <<ret, res>>

(* lines 194-196 *)
MS_Server ==
    /\ pc = "ms_server"
    /\ begun' = begun \cup {"mainstart"}
    /\ IF flags.Server = ServerEmpty
       THEN /\ failed' = failed \cup {"server_empty"}
            /\ Return(TRUE, Errorf("error: server URL required (-server)",
                                   "", <<>>, ""))
       ELSE /\ failed' = failed
            /\ Proceed
    /\ UNCHANGED <<flags, argvOK, calls, fs, guardBranch, logSink, dumperStarted, cfgAttempts,
                   err, mgr, router, srvVars>>
    /\ UNCHANGED auxVars

(* lines 198-201: cbgt.NewCbAuthHandler(server) *)
MS_Auth ==
    /\ pc = "ms_auth"
    /\ calls' = calls \o <<"cbgt.NewCbAuthHandler">>
    /\ \E e \in {Nil, Errorf("parse err", "", <<>>, "")} :
         /\ err' = e
         /\ IF e # Nil
            THEN /\ failed' = failed \cup {"auth"}
                 /\ Return(TRUE,
                      Errorf("error: Error in parsing server url err: %v",
                             "", <<>>, e.fmt))
            ELSE /\ failed' = failed
                 /\ Proceed
    /\ UNCHANGED <<flags, argvOK, fs, guardBranch, logSink, dumperStarted, begun,
                   cfgAttempts, mgr, router, srvVars>>
    /\ UNCHANGED auxVars

(* lines 202-206: auth.GetCredentials() *)
MS_Creds ==
    /\ pc = "ms_creds"
    /\ calls' = calls \o <<"auth.GetCredentials">>
    /\ \E e \in {Nil, Errorf("cbauth err", "", <<>>, "")} :
         /\ err' = e
         /\ IF e # Nil
            THEN /\ failed' = failed \cup {"creds"}
                 /\ Return(TRUE,
                      Errorf("error: Error in getting auth from cbauth err:%v",
                             "", <<>>, e.fmt))
            ELSE /\ failed' = failed
                 /\ Proceed
    /\ UNCHANGED <<flags, argvOK, fs, guardBranch, logSink, dumperStarted, begun,
                   cfgAttempts, mgr, router, srvVars>>
    /\ UNCHANGED auxVars

NotAURLFmt == "error: not a URL, server: %q ... valid URL (http://HOST:PORT)"
CouldNotConnectFmt ==
    "error: could not connect to server (%q), err: %v ... -server parameter (%q)"

(* lines 209-227: the error MainStart returns when the probe               *)
(* couchbase.ConnectWithAuthCreds(server, user, pass) returned e # nil.    *)
ProbeError_oneMessage(server, e) ==
    Errorf(CouldNotConnectFmt, "", server, e.fmt)

ProbeError(server, e) ==
    IF ~HasPrefix(server, HttpPrefix) /\ ~HasPrefix(server, HttpsPrefix)
    THEN Errorf(NotAURLFmt, "", server, "")
    ELSE Errorf(CouldNotConnectFmt, "", server, e.fmt)

ConnErr == Errorf("connect err", "", <<>>, "")

(* line 208: couchbase.ConnectWithAuthCreds parses the server with net/url, *)
(* which lower-cases the scheme, and issues an HTTP request: it can succeed *)
(* only on an http or https URL, in whatever letter case the scheme is.    *)
ToLower(s) ==
    [i \in 1..Len(s) |->
        CASE s[i] = "H" -> "h"
          [] s[i] = "T" -> "t"
          [] s[i] = "P" -> "p"
          [] s[i] = "S" -> "s"
          [] OTHER -> s[i]]

ProbeResults(server) ==
    IF \/ HasPrefix(ToLower(server), HttpPrefix)
       \/ HasPrefix(ToLower(server), HttpsPrefix)
    THEN {Nil, ConnErr}
    ELSE {ConnErr}

(* line 209: if err != nil *)
ProbeFailed_never(e) == FALSE

ProbeFailed(e) == e # Nil

(* lines 207-228 *)
MS_Probe ==
    /\ pc = "ms_probe"
    /\ calls' = IF flags.Server # ServerLocal
                THEN calls \o <<"couchbase.ConnectWithAuthCreds">>
                ELSE calls
    /\ IF flags.Server # ServerLocal
       THEN \E e \in ProbeResults(flags.Server) :
              /\ failed' = IF e # Nil THEN failed \cup {"probe"} ELSE failed
              /\ IF ProbeFailed(e)
                 THEN Return(TRUE, ProbeError(flags.Server, e))
                 ELSE Proceed
       ELSE /\ failed' = failed
            /\ Proceed
    /\ UNCHANGED <<flags, argvOK, fs, guardBranch, logSink, dumperStarted, begun,
                   cfgAttempts, err, mgr, router, srvVars>>
    /\ UNCHANGED auxVars

(* lines 230-236: cbgt.NewManager, mgr.Start(register) *)
MS_Mgr ==
    /\ pc = "ms_mgr"
    /\ calls' = calls \o <<"cbgt.NewManager", "mgr.Start">>
    /\ \E e \in {Nil, Errorf("mgr start err", "", <<>>, "")} :
         /\ err' = e
         /\ mgr' = IF e = Nil THEN "started" ELSE "start_failed"
         /\ IF e # Nil
            THEN /\ failed' = failed \cup {"mgr_start"}
                 /\ Return(TRUE, e)
            ELSE /\ failed' = failed
                 /\ Proceed
    /\ UNCHANGED <<flags, argvOK, fs, guardBranch, logSink, dumperStarted, begun,
                   cfgAttempts, router, srvVars>>
    /\ UNCHANGED auxVars

(* lines 298-325: the routes InitStaticRouter binds, in order. *)
InitStaticRouter ==
    <<"/", "/index.html", "/static/partials/index/list.html",
      "/indexes", "/nodes", "/monitor", "/manage", "/logs", "/debug",
      "/staticx/">>

(* The REST API paths are owned by rest.InitRESTRouter; one entry stands   *)
(* for them.                                                               *)
RESTRoutes == <<"/api/...">>

(* Nothing in NewRESTRouter (lines 348-354) or MainStart restricts the     *)
(* paths the mount binds on the router it is given: besides its own paths  *)
(* it may bind one that InitStaticRouter has bound, or one that MainStart  *)
(* binds afterwards.                                                       *)
RESTRouteChoices ==
    {RESTRoutes, RESTRoutes \o <<"/indexes">>,
     RESTRoutes \o <<"/api/nsstats">>}

RestErr == Errorf("rest err", "", <<>>, "")

(* lines 238-239 and 348-354: router, _, err := cbft.NewRESTRouter(...).   *)
(* The mount returns the router it was given with the REST routes added,   *)
(* or an error together with a router or with nil.                         *)
MS_Rest ==
    /\ pc = "ms_rest"
    /\ calls' = calls \o <<"cbft.NewRESTRouter">>
    /\ \E outcome \in {"ok", "err_router", "err_nil"},
          rest \in RESTRouteChoices :
         /\ router' = CASE outcome = "ok" ->
                            [isNil |-> FALSE,
                             routes |-> InitStaticRouter \o rest]
                        [] outcome = "err_router" ->
                            [isNil |-> FALSE, routes |-> InitStaticRouter]
                        [] outcome = "err_nil" ->
                            [isNil |-> TRUE, routes |-> <<>>]
         /\ err' = IF outcome = "ok" THEN Nil ELSE RestErr
         /\ failed' = IF outcome = "ok" THEN failed
                      ELSE failed \cup {"rest"}
    /\ Proceed
    /\ UNCHANGED <<flags, argvOK, fs, guardBranch, logSink, dumperStarted, begun,
                   cfgAttempts, mgr, srvVars>>
    /\ UNCHANGED auxVars

(* mux.Router.Handle as lines 242 and 247 use it: the route is added     *)
(* after the routes registered so far; nothing is returned to test.        *)
Handle_replace(r, path) == [r EXCEPT !.routes = <<path>>]

Handle(r, path) == [r EXCEPT !.routes = Append(@, path)]

(* line 242: router.Handle("/api/nsstats", ...); a nil router panics.      *)
MS_NsStats ==
    /\ pc = "ms_nsstats"
    /\ calls' = calls \o <<"cbft.NewNsStatsHandler">>
    /\ IF router.isNil
       THEN /\ Exit("panic", Errorf("panic: nil pointer dereference",
                                    "", <<>>, ""))
            /\ res' = [res EXCEPT !["mainstart"] = "fail"]
            /\ UNCHANGED <<router, ret>>
       ELSE /\ router' = Handle(router, "/api/nsstats")
            /\ Proceed
    /\ UNCHANGED <<flags, argvOK, fs, guardBranch, logSink, dumperStarted, begun, failed,
                   cfgAttempts, err, mgr, srvVars>>
    /\ UNCHANGED auxVars

(* lines 243-247: what follows nsStatusHandler, err :=                     *)
(* cbft.NewNsStatusHandler(mgr, server) having returned e.                 *)
NsStatus_swallow(r, e) ==
    [return |-> FALSE,
     router |-> [r EXCEPT !.routes = Append(@, "/api/nsstatus")]]

NsStatus(r, e) ==
    IF e # Nil
    THEN [return |-> TRUE, router |-> r]
    ELSE [return |-> FALSE, router |-> Handle(r, "/api/nsstatus")]

NsStatusErr == Errorf("nsstatus err", "", <<>>, "")

MS_NsStatus ==
    /\ pc = "ms_nsstatus"
    /\ calls' = calls \o <<"cbft.NewNsStatusHandler">>
    /\ \E e \in {Nil, NsStatusErr} :
         LET n == NsStatus(router, e) IN
           /\ err' = e
           /\ router' = n.router
           /\ failed' = IF e # Nil THEN failed \cup {"nsstatus"} ELSE failed
           /\ IF n.return THEN Return(TRUE, e) ELSE Proceed
    /\ UNCHANGED <<flags, argvOK, fs, guardBranch, logSink, dumperStarted, begun,
                   cfgAttempts, mgr, srvVars>>
    /\ UNCHANGED auxVars

(* line 249: return router, err *)
MS_Return ==
    /\ pc = "ms_return"
    /\ Return(router.isNil, err)
    /\ UNCHANGED <<flags, argvOK, calls, fs, guardBranch, logSink, dumperStarted, begun, failed,
                   cfgAttempts, err, mgr, router, srvVars>>
    /\ UNCHANGED auxVars

----------------------------------------------------------------------------
(* main, lines 142-149. *)
MainHalts_never(e) == FALSE

MainHalts(e) == e # Nil

IsUnregistered_never(register) == FALSE

IsUnregistered(register) == register = "unknown"

Check ==
    /\ pc = "check"
    /\ IF MainHalts(ret.err) THEN Fatal(ret.err)
       ELSE IF IsUnregistered(flags.Register) THEN Exit("unregistered", Nil)
       ELSE Continue(MainSeq)
    /\ UNCHANGED <<flags, argvOK, calls, fs, guardBranch, logSink, dumperStarted, begun, res,
                   failed, cfgAttempts, msVars, srvVars>>
    /\ UNCHANGED auxVars

(* main, line 151: http.Handle("/", router) *)
Bind ==
    /\ pc = "bind"
    /\ calls' = calls \o <<"http.Handle">>
    /\ httpBound' = TRUE
    /\ Continue(MainSeq)
    /\ UNCHANGED <<flags, argvOK, fs, guardBranch, logSink, dumperStarted, begun, res,
                   failed, cfgAttempts, msVars, listenerStarted>>
    /\ UNCHANGED auxVars

(* main, lines 153-164: http.ListenAndServe(flags.BindHttp, nil) is called *)
Listen ==
    /\ pc = "listen"
    /\ calls' = calls \o <<"http.ListenAndServe">>
    /\ listenerStarted' = TRUE
    /\ begun' = begun \cup {"listen"}
    /\ Continue(MainSeq)
    /\ UNCHANGED <<flags, argvOK, fs, guardBranch, logSink, dumperStarted, res, failed,
                   cfgAttempts, msVars, httpBound>>
    /\ UNCHANGED auxVars

(* main, lines 164-169: ListenAndServe returns, always with an error. *)
ListenFail ==
    /\ pc = "serving"
    /\ res' = [res EXCEPT !["listen"] = "fail"]
    /\ failed' = failed \cup {"listen"}
    /\ Fatal(Errorf("main: listen, err: %v ... -bindHttp parameter (%q)",
                    "", <<>>, "listen err"))
    /\ UNCHANGED <<flags, argvOK, calls, fs, guardBranch, logSink, dumperStarted, begun,
                   cfgAttempts, msVars, srvVars>>
    /\ UNCHANGED auxVars

(* The process is started again on the same command line and file system  *)
(* (the outside watchdog of the comment at lines 107-108).                 *)
Restart ==
    /\ pc = "exited"
    /\ pc' = "flags"
    /\ exitCode' = -1
    /\ exitCause' = "none"
    /\ fatalMsg' = Nil
    /\ logSink' = "stderr"
    /\ dumperStarted' = FALSE
    /\ begun' = {}
    /\ res' = [s \in StageSet |-> "none"]
    /\ failed' = {}
    /\ cfgAttempts' = 0
    /\ calls' = <<>>
    /\ err' = Nil
    /\ mgr' = "none"
    /\ router' = [isNil |-> TRUE, routes |-> <<>>]
    /\ ret' = [returned |-> FALSE, routerNil |-> TRUE, err |-> Nil]
    /\ httpBound' = FALSE
    /\ listenerStarted' = FALSE
    /\ guardBranch' = "none"
    /\ dpc' = "off"
    /\ sigChan' = <<>>
    /\ delivered' = 0
    /\ dropped' = 0
    /\ dumpLog' = <<>>
    /\ table' = {}
    /\ lastCb' = [n \in PNames |-> "none"]
    /\ UNCHANGED <<flags, argvOK, fs, assetVars>>

Next ==
    \/ ParseFlags
    \/ Setup
    \/ GuardStep
    \/ CfgStep
    \/ UUIDStep
    \/ MS_Server
    \/ MS_Auth
    \/ MS_Creds
    \/ MS_Probe
    \/ MS_Mgr
    \/ MS_Rest
    \/ MS_NsStats
    \/ MS_NsStatus
    \/ MS_Return
    \/ Check
    \/ Bind
    \/ Listen
    \/ ListenFail
    \/ Restart

Spec == Init /\ [][Next]_vars

----------------------------------------------------------------------------
(* One run configuration on which every step of main can happen; the       *)
(* specifications of the dumper and of the partition callbacks start here. *)
RunFlags ==
    [Help |-> FALSE, Version |-> FALSE, DataDir |-> DEFAULT_DATA_DIR,
     CfgConnect |-> "simple", Server |-> ServerHttp, Register |-> "wanted"]

InitRun ==
    /\ Init
    /\ flags = RunFlags
    /\ argvOK
    /\ fs = Absent

----------------------------------------------------------------------------
(* dumpOnSignal, lines 265-274, started by main at line 75.                *)

SigChanCap == 1     \* make(chan os.Signal, 1)
MaxSignals == 3

(* signal.Notify's delivery to a channel nobody is receiving from: a       *)
(* non-blocking send, the signal is lost when the buffer is full.          *)
ChanSend_unbounded(ch, sig) == Append(ch, sig)

ChanSend(ch, sig) ==
    IF Len(ch) < SigChanCap THEN Append(ch, sig) ELSE ch

Alive == pc # "exited"

(* lines 266-267: the channel is made and subscribed. *)
DumperSubscribe ==
    /\ Alive
    /\ dumperStarted
    /\ dpc = "off"
    /\ dpc' = "recv"
    /\ UNCHANGED <<sigChan, delivered, dropped, dumpLog>>

(* A subscribed signal is delivered to the process.  A receiver parked in  *)
(* `range c` takes it directly; otherwise it goes through the buffer.      *)
Signal ==
    /\ Alive
    /\ dpc # "off"
    /\ delivered < MaxSignals
    /\ delivered' = delivered + 1
    /\ IF dpc = "wait"
       THEN /\ dpc' = "goroutine"
            /\ UNCHANGED <<sigChan, dropped>>
       ELSE /\ sigChan' = ChanSend(sigChan, "sig")
            /\ dropped' = IF Len(ChanSend(sigChan, "sig")) = Len(sigChan)
                          THEN dropped + 1
                          ELSE dropped
            /\ dpc' = dpc
    /\ UNCHANGED dumpLog

(* line 268: `for _ = range c` receives a buffered signal or parks. *)
DumpRecv ==
    /\ Alive
    /\ dpc = "recv"
    /\ IF sigChan # <<>>
       THEN /\ sigChan' = Tail(sigChan)
            /\ dpc' = "goroutine"
       ELSE /\ sigChan' = sigChan
            /\ dpc' = "wait"
    /\ UNCHANGED <<delivered, dropped, dumpLog>>

(* lines 269-270: pprof.Lookup("goroutine").WriteTo(os.Stderr, 1) *)
DumpGoroutine ==
    /\ Alive
    /\ dpc = "goroutine"
    /\ dumpLog' = Append(dumpLog, "goroutine")
    /\ dpc' = "heap"
    /\ UNCHANGED <<sigChan, delivered, dropped>>

(* lines 271-272: pprof.Lookup("heap").WriteTo(os.Stderr, 1) *)
DumpHeap ==
    /\ Alive
    /\ dpc = "heap"
    /\ dumpLog' = Append(dumpLog, "heap")
    /\ dpc' = "recv"
    /\ UNCHANGED <<sigChan, delivered, dropped>>

mainVars ==
    <<flags, argvOK, fs, guardBranch, pc, exitCode, exitCause, fatalMsg,
      logSink, dumperStarted, begun, res, failed, cfgAttempts, calls, err,
      mgr, router, ret, httpBound, listenerStarted>>

Dumper ==
    /\ \/ DumperSubscribe
       \/ Signal
       \/ DumpRecv
       \/ DumpGoroutine
       \/ DumpHeap
    /\ UNCHANGED <<mainVars, handlerVars, assetVars>>

NextDumper == Next \/ Dumper

SpecDumper == InitRun /\ [][NextDumper]_vars

----------------------------------------------------------------------------
(* MainHandlers, lines 252-263, and the index name mapping of bleve/http   *)
(* they maintain: a map from index name to index.                          *)

RegisterIndexName(t, name, idx) ==
    {e \in t : e.name # name} \cup {[name |-> name, index |-> idx]}

UnregisterIndexByName(t, name) == {e \in t : e.name # name}

(* line 255: bindex, ok := pindex.Impl.(bleve.Index) *)
IsBleveIndex_any(p) == TRUE

IsBleveIndex(p) == p.Impl = "bleve"

(* lines 254-259 *)
OnRegisterPIndex(t, p) ==
    IF IsBleveIndex(p) THEN RegisterIndexName(t, p.Name, p.Impl) ELSE t

(* lines 261-263 *)
OnUnregisterPIndex(t, p) == UnregisterIndexByName(t, p.Name)

(* The manager created at lines 230-232 holds the handlers and calls them  *)
(* from then on, while the process lives.                                  *)
ManagerLive == Alive /\ mgr # "none"

CallOnRegisterPIndex ==
    /\ ManagerLive
    /\ \E p \in PIndexes :
         /\ table' = OnRegisterPIndex(table, p)
         /\ lastCb' = [lastCb EXCEPT ![p.Name] = "register"]
    /\ UNCHANGED <<mainVars, dumperVars, assetVars>>

CallOnUnregisterPIndex ==
    /\ ManagerLive
    /\ \E p \in PIndexes :
         /\ table' = OnUnregisterPIndex(table, p)
         /\ lastCb' = [lastCb EXCEPT ![p.Name] = "unregister"]
    /\ UNCHANGED <<mainVars, dumperVars, assetVars>>

NextHandlers == Next \/ CallOnRegisterPIndex \/ CallOnUnregisterPIndex

SpecHandlers == InitRun /\ [][NextHandlers]_vars

----------------------------------------------------------------------------
(* myAssetDir and myAsset, lines 327-343.  A lookup returns a value, an    *)
(* error and (for the record) the asset sets it consulted, in order.       *)

Found(id, name, consulted) ==
    [val |-> <<id, name>>, err |-> "nil", consulted |-> consulted]
NotFound(name, consulted) ==
    [val |-> <<>>, err |-> "not found", consulted |-> consulted]

(* Asset(name) of an embedded set: the bytes of a file. *)
Asset(set, id, name, consulted) ==
    IF set[name] = "file"
    THEN Found(id, name, Append(consulted, id))
    ELSE NotFound(name, Append(consulted, id))

(* AssetDir(name) of an embedded set: the children of a directory. *)
AssetDir(set, id, name, consulted) ==
    IF set[name] = "dir"
    THEN Found(id, name, Append(consulted, id))
    ELSE NotFound(name, Append(consulted, id))

(* lines 327-334 *)
myAssetDir(prim, fb, name) ==
    LET a == AssetDir(prim, "cbft", name, <<>>) IN
      IF a.err = "nil" THEN a
      ELSE AssetDir(fb, "rest", name, a.consulted)

(* lines 336-343 *)
myAsset_fallbackFirst(prim, fb, name) ==
    LET b == Asset(fb, "rest", name, <<>>) IN
      IF b.err = "nil" THEN b
      ELSE Asset(prim, "cbft", name, b.consulted)

myAsset(prim, fb, name) ==
    LET b == Asset(prim, "cbft", name, <<>>) IN
      IF b.err = "nil" THEN b
      ELSE Asset(fb, "rest", name, b.consulted)

InitAssets ==
    /\ MainInit
    /\ flags = RunFlags
    /\ argvOK
    /\ fs = Absent
    /\ DumperOff
    /\ NoCallbacks
    /\ primary \in AssetSets
    /\ fallback \in AssetSets
    /\ lookup = NoLookup

LookupAsset ==
    /\ \E n \in AssetNames :
         lookup' = [fn |-> "myAsset", name |-> n,
                    r |-> myAsset(primary, fallback, n)]
    /\ UNCHANGED <<mainVars, dumperVars, handlerVars, primary, fallback>>

LookupAssetDir ==
    /\ \E n \in AssetNames :
         lookup' = [fn |-> "myAssetDir", name |-> n,
                    r |-> myAssetDir(primary, fallback, n)]
    /\ UNCHANGED <<mainVars, dumperVars, handlerVars, primary, fallback>>

NextAssets == LookupAsset \/ LookupAssetDir

SpecAssets == InitAssets /\ [][NextAssets]_vars

----------------------------------------------------------------------------
(* Properties.                                                             *)

StageOK(s) == res[s] = "ok"
Bound(path) == \E i \in 1..Len(router.routes) : router.routes[i] = path
Serving == httpBound \/ listenerStarted \/ pc \in {"bind", "listen", "serving"}
IsURLShaped(s) == HasPrefix(s, HttpPrefix) \/ HasPrefix(s, HttpsPrefix)
MainStartSteps ==
    {"server_empty", "auth", "creds", "probe", "mgr_start", "rest",
     "nsstatus"}
ValidationSteps == {"server_empty", "auth", "creds", "probe"}

\* C1: the stages guard, cmd.MainCfg, cmd.MainUUID, MainStart and
\* http.ListenAndServe each begin only after every earlier stage has
\* returned successfully; once a stage has returned an error (or has not
\* returned at all), no later stage has begun and the listener is not
\* started.
C1_SequentialAbortOnFailure ==
    /\ \A i \in 1..Len(Stages) :
         Stages[i] \in begun =>
           \A j \in 1..(i - 1) : StageOK(Stages[j])
    /\ \A j \in 1..(Len(Stages) - 1) :
         res[Stages[j]] = "fail" =>
           /\ \A i \in (j + 1)..Len(Stages) : Stages[i] \notin begun
           /\ ~Serving

C1_Witness ==
    /\ pc = "exited"
    /\ StageOK("uuid")
    /\ res["mainstart"] = "fail"
    /\ "probe" \in failed

\* C2: whenever a step inside MainStart has failed (empty server, auth
\* handler, credentials, probe, mgr.Start, the REST mount, the ns-status
\* handler), MainStart does not return a nil error and the process does
\* not go on to bind the router or to listen.
C2_EveryStepFailureAborts ==
    (failed \cap MainStartSteps # {}) =>
        /\ ~(ret.returned /\ ret.err = Nil)
        /\ ~Serving

\* C3 as stated: the node identity is obtained (cmd.MainUUID) before the
\* cluster config handle is opened (cmd.MainCfg), the handle is opened
\* before the registrar is started, and the registrar is started before
\* any route is composed.
C3_IdentityBeforeCfg ==
    /\ "cfg" \in begun => StageOK("uuid")
    /\ mgr # "none" => StageOK("cfg")
    /\ Len(router.routes) > 0 => mgr = "started"

\* C3 amended: the cluster config handle is opened (cmd.MainCfg) before
\* the node identity is obtained (cmd.MainUUID), the identity is obtained
\* before the registrar is started, the registrar is started before any
\* route is composed, and routes are composed before the listener starts.
C3_CfgBeforeIdentity ==
    /\ "cfg" \in begun => StageOK("guard")
    /\ "uuid" \in begun => StageOK("cfg")
    /\ mgr # "none" => StageOK("uuid")
    /\ Len(router.routes) > 0 => mgr = "started"
    /\ listenerStarted => Bound("/api/nsstatus")

C3_Witness ==
    /\ listenerStarted
    /\ StageOK("cfg")
    /\ StageOK("uuid")
    /\ mgr = "started"

\* C4 as stated: exit status 0 for help requested, version requested and
\* the clean unregistered exit; status 2 only for a usage error; every
\* fatal startup error ends the process with a non-zero status.
C4_HelpExitsZero ==
    pc = "exited" =>
        /\ (argvOK /\ flags.Help) => exitCode = 0
        /\ (argvOK /\ ~flags.Help /\ flags.Version) => exitCode = 0
        /\ exitCause = "unregistered" => exitCode = 0
        /\ exitCode = 2 => ~argvOK
        /\ fatalMsg # Nil => exitCode # 0

\* C4 amended: the process exits with status 0 exactly when the version
\* was requested or the unregistered node exits cleanly after MainStart
\* returned without error; a help request exits with status 2, as does a
\* command line that does not parse; status 2 arises otherwise only from
\* the panic on a nil router; every fatal startup error ends the process
\* with a non-zero status.
C4_ExitStatuses ==
    pc = "exited" =>
        /\ (argvOK /\ flags.Help) => exitCode = 2
        /\ ~argvOK => exitCode = 2
        /\ (argvOK /\ ~flags.Help /\ flags.Version) => exitCode = 0
        /\ exitCode = 0 <=>
             \/ (argvOK /\ ~flags.Help /\ flags.Version)
             \/ /\ flags.Register = "unknown"
                /\ ret.returned
                /\ ret.err = Nil
        /\ exitCode = 2 =>
             \/ ~argvOK
             \/ flags.Help
             \/ (router.isNil /\ "rest" \in failed)
        /\ fatalMsg # Nil => exitCode # 0
        /\ (failed \ {"rest"}) # {} => exitCode # 0

C4_Witness ==
    /\ pc = "exited"
    /\ argvOK
    /\ flags.Help
    /\ exitCode = 2

\* C5: with registerMode "unknown" the router is never bound to the HTTP
\* transport and the listener is never started; when the run has ended and
\* no stage failed, cmd.MainCfg was attempted (once) and the exit status
\* is 0, taken right after MainStart returned.
C5_UnregisteredExitsWithoutServing ==
    flags.Register = "unknown" =>
        /\ ~Serving
        /\ (pc = "exited" /\ StageOK("mainstart")) =>
             /\ exitCode = 0
             /\ exitCause = "unregistered"
             /\ cfgAttempts = 1
             /\ StageOK("cfg")

C5_Witness ==
    /\ flags.Register = "unknown"
    /\ pc = "exited"
    /\ exitCause = "unregistered"
    /\ mgr = "started"

\* C7 as stated: among the failures of server validation in MainStart
\* (here: of a server argument other than "" and the sentinel ".", in
\* cbgt.NewCbAuthHandler, auth.GetCredentials or the probe), a server that
\* is not URL-shaped
\* always yields the not-a-URL message and an http/https URL always yields
\* the could-not-connect message.
C7_AnyValidationFailure ==
    (/\ ret.returned
     /\ flags.Server \notin {ServerEmpty, ServerLocal}
     /\ failed \cap ValidationSteps # {}) =>
        /\ ~IsURLShaped(flags.Server) => ret.err.fmt = NotAURLFmt
        /\ IsURLShaped(flags.Server) => ret.err.fmt = CouldNotConnectFmt

\* C7 amended: when the connectivity probe fails, a server without the
\* http:// or https:// prefix always yields the not-a-URL message, a
\* server with one always yields the could-not-connect message, and no
\* server of the other shape yields the same text; a failure before the
\* probe (empty server, auth handler, credentials) yields its own message,
\* neither of the two.
C7_ProbeFailureMessages ==
    /\ (ret.returned /\ "probe" \in failed) =>
        /\ ~IsURLShaped(flags.Server) => ret.err.fmt = NotAURLFmt
        /\ IsURLShaped(flags.Server) => ret.err.fmt = CouldNotConnectFmt
        /\ ret.err.server = flags.Server
        /\ \A s \in Servers :
             IsURLShaped(s) # IsURLShaped(flags.Server) =>
               ProbeError(s, ConnErr).fmt # ret.err.fmt
    /\ (ret.returned /\ failed \cap {"server_empty", "auth", "creds"} # {})
         => ret.err.fmt \notin {NotAURLFmt, CouldNotConnectFmt}

C7_Witness ==
    /\ ret.returned
    /\ "probe" \in failed
    /\ flags.Server = ServerNotAURL
    /\ ret.err.fmt = NotAURLFmt

\* C8: if dataDir does not exist and is not the default path, the process
\* halts with a non-zero status in the guard, nothing is created at the
\* path, and neither cmd.MainCfg, cmd.MainUUID, the manager nor the
\* listener runs.
C8_NonDefaultMissingDirHalts ==
    /\ (flags.DataDir # DEFAULT_DATA_DIR /\ "guard" \in begun
          /\ fs.kind = "absent") =>
        /\ guardBranch = "not_exist"
        /\ fs = Absent
        /\ pc = "exited"
        /\ exitCode # 0
        /\ begun = {"guard"}
        /\ cfgAttempts = 0
        /\ mgr = "none"
        /\ ~Serving
    /\ fs.madeBy = "guard" => flags.DataDir = DEFAULT_DATA_DIR

C8_Witness ==
    /\ flags.DataDir # DEFAULT_DATA_DIR
    /\ guardBranch = "not_exist"
    /\ fs = Absent
    /\ pc = "exited"

\* C9: if dataDir does not exist and equals the default path, the guard
\* creates it with mode 0700 and bootstrap continues; the guard run again
\* on the resulting state takes the exists-and-is-a-directory branch,
\* succeeds and leaves the directory as it is.
C9_GuardIdempotentOnDefault ==
    /\ guardBranch = "created" =>
         /\ flags.DataDir = DEFAULT_DATA_DIR
         /\ fs = [kind |-> "dir", mode |-> 448, madeBy |-> "guard"]
         /\ StageOK("guard")
         /\ pc # "exited" \/ begun # {"guard"}
    /\ fs.madeBy = "guard" =>
         /\ fs.kind = "dir" /\ fs.mode = 448
         /\ guardBranch \in {"none", "created", "is_dir"}
         /\ \A mkdirOK \in BOOLEAN :
              LET g == Guard(fs, flags.DataDir, mkdirOK) IN
                /\ g.branch = "is_dir"
                /\ ~g.fatal
                /\ g.fs = fs

C9_Witness ==
    /\ fs.madeBy = "guard"
    /\ guardBranch = "is_dir"
    /\ "cfg" \in begun

\* C10: if cbft.NewNsStatusHandler fails, MainStart returns that error
\* with a nil router, /api/nsstatus is not bound, and main halts with a
\* non-zero status without binding the router or starting the listener.
C10_NsStatusFailurePropagates ==
    "nsstatus" \in failed =>
        /\ ret.returned
        /\ ret.routerNil
        /\ ret.err = NsStatusErr
        /\ ~Bound("/api/nsstatus")
        /\ ~Serving
        /\ pc \in {"check", "exited"}
        /\ pc = "exited" => (exitCode # 0 /\ fatalMsg = NsStatusErr)

C10_Witness ==
    /\ "nsstatus" \in failed
    /\ pc = "exited"
    /\ Bound("/api/nsstats")

Count(c) == Cardinality({i \in 1..Len(calls) : calls[i] = c})
Called(c) == Count(c) > 0
Before(c, d) ==
    \A j \in 1..Len(calls) :
        calls[j] = d => \E i \in 1..(j - 1) : calls[i] = c

\* C11: cmd.MainCfg is called at most once in a run; if it fails the
\* process halts with a non-zero status after that one attempt and neither
\* cmd.MainUUID, the manager, the router composition nor the listener
\* runs; cmd.ErrorBindHttp is reported by its own text, different from the
\* generic message, which names the cfgConnect parameter and carries the
\* cause.
C11_CfgFailureHaltsOnce ==
    /\ Count("cmd.MainCfg") <= 1
    /\ Count("cmd.MainCfg") = cfgAttempts
    /\ "cfg" \in failed =>
        /\ pc = "exited"
        /\ exitCode # 0
        /\ cfgAttempts = 1
        /\ calls[Len(calls)] = "cmd.MainCfg"
        /\ begun = {"guard", "cfg"}
        /\ mgr = "none"
        /\ router.routes = <<>>
        /\ ~Serving
        /\ fatalMsg.cause \in {ErrorBindHttp.fmt, CfgErr.fmt}
        /\ fatalMsg.cause = ErrorBindHttp.fmt =>
             /\ fatalMsg.fmt = "%v"
             /\ fatalMsg # CfgFatalMsg(CfgErr, flags.CfgConnect)
        /\ fatalMsg.cause = CfgErr.fmt =>
             /\ fatalMsg.fmt = CfgUnavailableFmt
             /\ fatalMsg.arg = flags.CfgConnect

C11_Witness ==
    /\ "cfg" \in failed
    /\ fatalMsg.cause = ErrorBindHttp.fmt
    /\ flags.CfgConnect = "couchbase:http://cfg"

HasDuplicate(routes) ==
    \E i, j \in 1..Len(routes) : i < j /\ routes[i] = routes[j]

\* C12: if two router-composition stages (static UI, REST, node-specific)
\* have bound the same path, the composition reports an error: MainStart
\* does not return a nil error and the router is not served.
C12_DuplicatePathIsAnError ==
    HasDuplicate(router.routes) =>
        /\ ~(ret.returned /\ ret.err = Nil)
        /\ ~Serving

IsPrefix(a, b) == Len(a) <= Len(b) /\ SubSeq(b, 1, Len(a)) = a

\* C14: within a run of the process a step only appends routes to the
\* table (no binding is removed or replaced); the static, REST, /api/nsstats
\* and /api/nsstatus routes and the binding of the router at "/" are all
\* made before http.ListenAndServe is called; once the listener has been
\* started no step of the process changes the table or the binding.
C14_RoutesAppendOnlyThenFrozen ==
    /\ [](listenerStarted =>
            /\ httpBound
            /\ Before("http.Handle", "http.ListenAndServe")
            /\ Before("cbft.NewRESTRouter", "http.Handle")
            /\ Before("cbft.NewNsStatusHandler", "http.Handle")
            /\ IsPrefix(InitStaticRouter, router.routes)
            /\ Bound("/api/nsstats")
            /\ Bound("/api/nsstatus"))
    /\ [][pc # "exited" =>
            /\ IsPrefix(router.routes, router'.routes)
            /\ listenerStarted =>
                 /\ router' = router
                 /\ httpBound' = httpBound
                 /\ listenerStarted']_vars

C14_Witness ==
    /\ listenerStarted
    /\ pc = "serving"
    /\ Len(router.routes) = Len(InitStaticRouter) + 3

\* C15 as stated: the manager is created and started only if the server
\* argument is "." or begins with http:// or https://; every other
\* non-empty server is rejected with an error, whatever the probe returns.
C15_SchemeRequired ==
    /\ mgr # "none" =>
         flags.Server = ServerLocal \/ IsURLShaped(flags.Server)
    /\ (/\ ret.returned
        /\ flags.Server \notin {ServerEmpty, ServerLocal}
        /\ ~IsURLShaped(flags.Server)) => ret.err # Nil

\* C15 amended: the manager is created and started only if the server
\* argument is "." (no probe is made) or the connectivity probe has
\* succeeded; the http:// or https:// prefix is examined only after a
\* failed probe, so a non-empty server without the prefix is rejected
\* exactly when the probe fails, and a failed probe always ends MainStart
\* with an error and no manager.
C15_ProbeDecides ==
    /\ mgr # "none" =>
         /\ flags.Server # ServerEmpty
         /\ \/ flags.Server = ServerLocal
            \/ /\ Before("couchbase.ConnectWithAuthCreds", "cbgt.NewManager")
               /\ "probe" \notin failed
    /\ flags.Server = ServerLocal =>
         ~Called("couchbase.ConnectWithAuthCreds")
    /\ "probe" \in failed =>
         /\ mgr = "none"
         /\ ret.returned
         /\ ret.err = ProbeError(flags.Server, ConnErr)
    /\ (/\ Called("couchbase.ConnectWithAuthCreds")
        /\ "probe" \notin failed
        /\ ~IsURLShaped(flags.Server)) =>
         pc \notin {"check", "exited"} \/ Called("cbgt.NewManager")

C15_Witness ==
    /\ flags.Server = ServerUpper
    /\ mgr = "started"
    /\ ~IsURLShaped(flags.Server)

(* The registrar's position, read off the program state: 0 unstarted,    *)
(* 1 validating-server, 2 registering, 3 running, 4 failed.                *)
RegistrarFailures == ValidationSteps \cup {"mgr_start"}
RegistrarPhase ==
    CASE "mainstart" \notin begun            -> 0
      [] failed \cap RegistrarFailures # {}  -> 4
      [] mgr = "started"                     -> 3
      [] pc = "ms_mgr"                       -> 2
      [] OTHER                               -> 1

\* C16: the registrar goes unstarted, validating-server, registering,
\* running in that order and never back: auth.GetCredentials has returned
\* before couchbase.ConnectWithAuthCreds is called, cbgt.NewManager and
\* mgr.Start are called only after validation has succeeded, and once
\* validation or mgr.Start has failed MainStart has returned that error
\* with a nil router, no route has been composed, no call of MainStart is
\* made twice and the registrar stays failed.
C16_RegistrarOrder ==
    /\ [](/\ Before("auth.GetCredentials", "couchbase.ConnectWithAuthCreds")
          /\ Before("cbgt.NewCbAuthHandler", "auth.GetCredentials")
          /\ Called("cbgt.NewManager") =>
               /\ failed \cap ValidationSteps = {}
               /\ Called("auth.GetCredentials")
               /\ flags.Server # ServerEmpty
               /\ flags.Server # ServerLocal =>
                    Before("couchbase.ConnectWithAuthCreds", "cbgt.NewManager")
          /\ Before("cbgt.NewManager", "mgr.Start")
          /\ mgr = "started" => Called("mgr.Start")
          /\ failed \cap RegistrarFailures # {} =>
               /\ ret.returned
               /\ ret.routerNil
               /\ ret.err # Nil
               /\ router.routes = <<>>
               /\ mgr # "started"
               /\ ~Called("cbft.NewRESTRouter")
               /\ ~listenerStarted
               /\ pc \in {"check", "exited"}
               /\ pc = "exited" => exitCode # 0
          /\ \A c \in {"cbgt.NewCbAuthHandler", "auth.GetCredentials",
                       "couchbase.ConnectWithAuthCreds", "cbgt.NewManager",
                       "mgr.Start"} : Count(c) <= 1)
    /\ [][pc # "exited" =>
            /\ RegistrarPhase' >= RegistrarPhase
            /\ RegistrarPhase' - RegistrarPhase <= 1
                 \/ RegistrarPhase' = 4]_vars

C16_Witness ==
    /\ "mgr_start" \in failed
    /\ Called("couchbase.ConnectWithAuthCreds")
    /\ pc = "exited"

\* C17: whenever cmd.MainCfg has been called, the data directory exists
\* and is a directory; when the path is not a directory, when os.Stat
\* fails with an error other than not-exist, or when os.Mkdir of the
\* default directory fails, the process has halted with a non-zero status
\* after one os.Stat and at most one os.Mkdir, and nothing after the guard
\* has run.
C17_PastGuardMeansDirectory ==
    /\ (Called("cmd.MainCfg") \/ "cfg" \in begun) =>
         /\ fs.kind = "dir"
         /\ guardBranch \in {"is_dir", "created"}
         /\ Before("os.Stat", "cmd.MainCfg")
    /\ (/\ "guard" \in begun
        /\ \/ fs.kind \in {"file", "inaccessible"}
           \/ guardBranch = "mkdir_failed") =>
         /\ pc = "exited"
         /\ exitCode # 0
         /\ exitCause = "fatal"
         /\ begun = {"guard"}
         /\ ~Called("cmd.MainCfg")
         /\ Count("os.Stat") = 1
         /\ Count("os.Mkdir") = IF guardBranch = "mkdir_failed" THEN 1 ELSE 0
         /\ fs.madeBy = "env"
    /\ guardBranch = "mkdir_failed" =>
         fs.kind = "absent" /\ flags.DataDir = DEFAULT_DATA_DIR
    /\ Count("os.Stat") <= 1
    /\ Count("os.Mkdir") <= 1

C17_Witness ==
    /\ guardBranch = "not_dir"
    /\ fs.kind = "file"
    /\ pc = "exited"

\* C20: when -help or -version is requested (and the command line parses),
\* the process exits before any bootstrap side effect: log output is still
\* stderr, the dumper goroutine is not started, the data directory is
\* neither inspected nor created, cmd.MainCfg and cmd.MainUUID are not
\* called, and no manager exists.
C20_EarlyExitHasNoSideEffects ==
    (argvOK /\ (flags.Help \/ flags.Version)) =>
        /\ pc \in {"flags", "exited"}
        /\ pc = "exited" => exitCause \in {"help", "version"}
        /\ logSink = "stderr"
        /\ ~dumperStarted
        /\ calls = <<>>
        /\ begun = {}
        /\ guardBranch = "none"
        /\ fs.madeBy = "env"
        /\ cfgAttempts = 0
        /\ mgr = "none"
        /\ router.routes = <<>>
        /\ ~httpBound
        /\ ~listenerStarted

C20_Witness ==
    /\ pc = "exited"
    /\ exitCause = "version"
    /\ flags.Version
    /\ ~flags.Help

Dumps == Cardinality({i \in 1..Len(dumpLog) : dumpLog[i] = "heap"})
DumpInProgress == IF dpc \in {"goroutine", "heap"} THEN 1 ELSE 0

\* C13 as stated: whatever the timing of the deliveries, once the dumper
\* is idle again (parked on an empty channel) it has performed as many
\* dumps as signals were delivered.
C13_OneDumpPerDelivery ==
    (dpc = "wait" /\ sigChan = <<>>) => Dumps = delivered

\* C13 amended: every signal the dumper receives triggers one dump, which
\* writes the goroutine snapshot before the heap snapshot; delivery never
\* blocks, at most one signal is held pending while a dump is running and
\* a signal delivered while one is already pending is dropped, so every
\* delivered signal is dumped, in progress, pending or dropped, and the
\* number of dumps never exceeds the number of signals delivered.
C13_DumpsCoalesce ==
    /\ [](/\ delivered = Dumps + DumpInProgress + Len(sigChan) + dropped
          /\ Dumps <= delivered
          /\ Len(sigChan) <= SigChanCap
          /\ \A i \in 1..Len(dumpLog) :
               dumpLog[i] = IF i % 2 = 1 THEN "goroutine" ELSE "heap"
          /\ Len(dumpLog) = 2 * Dumps + (IF dpc = "heap" THEN 1 ELSE 0)
          /\ dpc = "wait" => sigChan = <<>>
          /\ dpc # "off" => dumperStarted)
    /\ [][(Alive /\ dropped' # dropped) =>
            /\ dropped' = dropped + 1
            /\ Len(sigChan) = SigChanCap
            /\ dpc # "wait"
            /\ UNCHANGED <<dpc, sigChan, dumpLog>>]_vars

C13_Witness ==
    /\ dropped = 1
    /\ Dumps = 2
    /\ delivered = 3
    /\ dpc = "wait"

\* C18: the partition callbacks are idempotent per partition: applying
\* OnRegisterPIndex again to a partition already registered leaves the
\* table unchanged, with one entry under its name; applying
\* OnUnregisterPIndex twice, or to a partition never registered, gives the
\* table a single application gives; and after any sequence of callbacks
\* the table holds a partition's name exactly when the partition's last
\* callback was a register and its Impl is a bleve index.
C18_CallbacksIdempotent ==
    \A p \in PIndexes :
        /\ (\E e \in table : e.name = p.Name) <=>
             (lastCb[p.Name] = "register" /\ p.Impl = "bleve")
        /\ Cardinality({e \in table : e.name = p.Name}) <= 1
        /\ \A e \in table : e.name = p.Name => e.index = p.Impl
        /\ OnRegisterPIndex(OnRegisterPIndex(table, p), p) =
             OnRegisterPIndex(table, p)
        /\ lastCb[p.Name] = "register" => OnRegisterPIndex(table, p) = table
        /\ OnUnregisterPIndex(OnUnregisterPIndex(table, p), p) =
             OnUnregisterPIndex(table, p)
        /\ lastCb[p.Name] \in {"none", "unregister"} =>
             OnUnregisterPIndex(table, p) = table

C18_Witness ==
    /\ lastCb["p1"] = "unregister"
    /\ lastCb["p3"] = "register"
    /\ \E e \in table : e.name = "p2"
    /\ Cardinality(table) = 1

AssetWant(fn) == IF fn = "myAsset" THEN "file" ELSE "dir"

\* C19: myAsset and myAssetDir try the asset set of package cbft, then the
\* one of cbgt/rest: when the first defines the name its result is
\* returned and the second is not consulted (also when both define it),
\* the second's result is returned exactly when the first lookup fails,
\* and an error is returned only when both lookups fail.
C19_FirstProviderWins ==
    lookup.fn # "none" =>
      LET n == lookup.name
          want == AssetWant(lookup.fn)
          r == lookup.r
      IN  /\ primary[n] = want =>
                r = [val |-> <<"cbft", n>>, err |-> "nil",
                     consulted |-> <<"cbft">>]
          /\ (primary[n] # want /\ fallback[n] = want) =>
                r = [val |-> <<"rest", n>>, err |-> "nil",
                     consulted |-> <<"cbft", "rest">>]
          /\ r.err # "nil" <=> (primary[n] # want /\ fallback[n] # want)
          /\ r.err # "nil" =>
                r.val = <<>> /\ r.consulted = <<"cbft", "rest">>
          /\ (r.err = "nil" /\ r.val[1] = "rest") <=>
                (primary[n] # want /\ fallback[n] = want)

C19_Witness ==
    /\ lookup.fn = "myAsset"
    /\ primary[lookup.name] = "file"
    /\ fallback[lookup.name] = "file"
    /\ lookup.r.val = <<"cbft", lookup.name>>

====
